---------------------------- MODULE Spec2Model ----------------------------
(***************************************************************************)
(* Envelope encryption service of workastra/desk.                          *)
(*                                                                         *)
(*   JWEA256GCMProvider  (providers/jweA256GcmProvider.ts)                 *)
(*   EncryptionProvider  (types.ts: secret list, key-handle cache)         *)
(*   EncryptionService   (encryptionService.ts: registry, envelope)        *)
(*   createEncryptionService, getEncryptionService, resetEncryptionService *)
(*                       (factory.ts)                                      *)
(*                                                                         *)
(* Three machines share the state:                                         *)
(*   Spec           one constructed service: key rotation, encrypt,        *)
(*                  decrypt;                                               *)
(*   SpecReEncrypt  the same service with reEncrypt;                       *)
(*   SpecFactory    the singleton of factory.ts, the instances it and      *)
(*                  createEncryptionService construct, and the tasks that  *)
(*                  hold references to them.                               *)
(*                                                                         *)
(* Representation of JavaScript values:                                    *)
(*   - an optional string (string | undefined) is a sequence: <<>> is      *)
(*     undefined and <<s>> is the string s;                                *)
(*   - a plaintext string is [units, xrep]: the UTF-16 code units `units`  *)
(*     followed by xrep copies of 'x' (the test suite's 'x'.repeat(n));    *)
(*   - the compact JWE produced by jose is the record of what it carries:  *)
(*     protected header kid, the key that sealed it, the IV, the UTF-8     *)
(*     bytes and whether the authentication tag still verifies;            *)
(*   - the string handed to decrypt is [form, meta]: form says how far     *)
(*     atob / JSON.parse get with it, meta is the parsed object.           *)
(* AES-GCM is idealised: a ciphertext opens under the key that sealed it   *)
(* and under no other, and the 96-bit random IV of each CompactEncrypt     *)
(* call is a value never used before.                                      *)
(***************************************************************************)
EXTENDS Integers, Sequences, FiniteSets, TLC

VARIABLES SECRET, cryptoKeyCache, providers, ivCounter, held,
          serviceInstance, instances, refs, outcome,
          callerMap, getting, cookieJar, consuming, delivered

\* the directly constructed service, its provider's key cache and its caller
serviceVars == <<SECRET, cryptoKeyCache, providers, ivCounter, held>>
\* factory.ts: the module-level singleton, every instance constructed so far and
\* the reference each task holds
factoryVars == <<serviceInstance, instances, refs>>

\* the Map a caller handed to the constructor, the getCryptoKey calls that are
\* under way, and the signal cookie with its consume() calls; the machines of
\* the sections above leave them as they are
cookieVars == <<cookieJar, consuming, delivered>>
laterVars == <<callerMap, getting, cookieVars>>

vars == <<SECRET, cryptoKeyCache, providers, ivCounter, held,
          serviceInstance, instances, refs, outcome,
          callerMap, getting, cookieJar, consuming, delivered>>

\* ------------------------------------------------------------------ bounds
MaxSecrets == 2
MaxEncrypts == 2
MaxInstances == 3
MaxKeyCalls == 2
MaxConsumers == 2
MaxPushes == 2

\* --------------------------------------------------------------- constants
TenMiB == 10485760
ElevenMiB == 11534336
KeyBytes == 32

Undefined == <<>>
Some(s) == <<s>>
Truthy(opt) == opt # Undefined /\ opt[1] # ""

\* ------------------------------------------------------------ UTF-16/UTF-8
IsHighSurrogate(u) == u >= 55296 /\ u <= 56319
IsLowSurrogate(u) == u >= 56320 /\ u <= 57343
ReplacementChar == 65533
ByteOrderMark == 65279

\* USVString conversion done by TextEncoder.encode: a surrogate pair becomes
\* one scalar value, an unpaired surrogate becomes U+FFFD.
RECURSIVE ToScalars(_)
ToScalars(units) ==
  IF units = <<>> THEN <<>>
  ELSE LET u == Head(units) IN
       IF IsHighSurrogate(u) /\ Len(units) >= 2 /\ IsLowSurrogate(units[2])
       THEN <<65536 + (u - 55296) * 1024 + (units[2] - 56320)>>
              \o ToScalars(Tail(Tail(units)))
       ELSE IF IsHighSurrogate(u) \/ IsLowSurrogate(u)
       THEN <<ReplacementChar>> \o ToScalars(Tail(units))
       ELSE <<u>> \o ToScalars(Tail(units))

Utf8Bytes(cp) ==
  IF cp < 128 THEN <<cp>>
  ELSE IF cp < 2048 THEN <<192 + (cp \div 64), 128 + (cp % 64)>>
  ELSE IF cp < 65536
  THEN <<224 + (cp \div 4096), 128 + ((cp \div 64) % 64), 128 + (cp % 64)>>
  ELSE <<240 + (cp \div 262144), 128 + ((cp \div 4096) % 64),
         128 + ((cp \div 64) % 64), 128 + (cp % 64)>>

RECURSIVE Utf8Encode(_)
Utf8Encode(scalars) ==
  IF scalars = <<>> THEN <<>>
  ELSE Utf8Bytes(Head(scalars)) \o Utf8Encode(Tail(scalars))

\* new TextEncoder().encode(plaintext)
TextEncode(plaintext) ==
  [bytes |-> Utf8Encode(ToScalars(plaintext.units)), xrep |-> plaintext.xrep]

Continuation(bytes, i) == i <= Len(bytes) /\ bytes[i] >= 128 /\ bytes[i] < 192

\* UTF-8 decoder of TextDecoder (fatal: false): a malformed sequence yields
\* U+FFFD.
RECURSIVE Utf8Decode(_)
Utf8Decode(bytes) ==
  IF bytes = <<>> THEN <<>>
  ELSE LET b == Head(bytes) IN
    IF b < 128 THEN <<b>> \o Utf8Decode(Tail(bytes))
    ELSE IF b >= 192 /\ b < 224 /\ Continuation(bytes, 2)
    THEN <<(b - 192) * 64 + (bytes[2] - 128)>>
           \o Utf8Decode(SubSeq(bytes, 3, Len(bytes)))
    ELSE IF b >= 224 /\ b < 240 /\ Continuation(bytes, 2) /\ Continuation(bytes, 3)
    THEN <<(b - 224) * 4096 + (bytes[2] - 128) * 64 + (bytes[3] - 128)>>
           \o Utf8Decode(SubSeq(bytes, 4, Len(bytes)))
    ELSE IF b >= 240 /\ b < 248 /\ Continuation(bytes, 2) /\ Continuation(bytes, 3)
            /\ Continuation(bytes, 4)
    THEN <<(b - 240) * 262144 + (bytes[2] - 128) * 4096 + (bytes[3] - 128) * 64
             + (bytes[4] - 128)>>
           \o Utf8Decode(SubSeq(bytes, 5, Len(bytes)))
    ELSE <<ReplacementChar>> \o Utf8Decode(Tail(bytes))

\* scalar values back to UTF-16 code units
RECURSIVE ToUnits(_)
ToUnits(scalars) ==
  IF scalars = <<>> THEN <<>>
  ELSE LET cp == Head(scalars) IN
       IF cp >= 65536
       THEN <<55296 + ((cp - 65536) \div 1024), 56320 + ((cp - 65536) % 1024)>>
              \o ToUnits(Tail(scalars))
       ELSE <<cp>> \o ToUnits(Tail(scalars))

\* new TextDecoder().decode(bytes): the default ignoreBOM: false removes one
\* leading U+FEFF from the output.
TextDecode(encoded) ==
  LET scalars == Utf8Decode(encoded.bytes)
      noBom == IF scalars # <<>> /\ Head(scalars) = ByteOrderMark
               THEN Tail(scalars) ELSE scalars
  IN [units |-> ToUnits(noBom), xrep |-> encoded.xrep]

\* plaintext.length and the falsiness test `!plaintext`
StringLength(plaintext) == Len(plaintext.units) + plaintext.xrep
IsEmptyString(plaintext) == StringLength(plaintext) = 0

Str(units) == [units |-> units, xrep |-> 0]
XRepeat(n) == [units |-> <<>>, xrep |-> n]
EmptyString == Str(<<>>)


\* ------------------------------------------------------------------ errors
NoCause == [type |-> "undefined", message |-> <<>>]

Err(type, message, algorithm, cause, requested, available) ==
  [type |-> type, message |-> message, algorithm |-> algorithm, cause |-> cause,
   requestedAlgorithm |-> requested, availableAlgorithms |-> available]

NoError == Err("none", <<>>, Undefined, NoCause, Undefined, <<>>)

\* an error thrown below the service: new Error(message) or a library error
Thrown(type, message) == Err(type, <<message>>, Undefined, NoCause, Undefined, <<>>)

\* the part of a caught error that a wrapping error keeps as its cause
AsCause(error) == [type |-> error.type, message |-> error.message]

EncryptionError_noCause(message, algorithm, cause) ==
  Err("EncryptionError", <<message>>, algorithm, NoCause, Undefined, <<>>)

EncryptionError(message, algorithm, cause) ==
  Err("EncryptionError", <<message>>, algorithm, cause, Undefined, <<>>)

DecryptionError(message, algorithm, cause) ==
  Err("DecryptionError", <<message>>, algorithm, cause, Undefined, <<>>)

UnsupportedAlgorithmError(requestedAlgorithm, availableAlgorithms) ==
  Err("UnsupportedAlgorithmError",
      <<"Unsupported algorithm: ", requestedAlgorithm, ". Available: ",
        availableAlgorithms>>,
      Undefined, NoCause, requestedAlgorithm, availableAlgorithms)

NoAlgorithmSpecifiedError_noList(availableAlgorithms) ==
  Err("NoAlgorithmSpecifiedError",
      <<"No algorithm specified. Available algorithms: ", <<>> >>,
      Undefined, NoCause, Undefined, <<>>)

NoAlgorithmSpecifiedError(availableAlgorithms) ==
  Err("NoAlgorithmSpecifiedError",
      <<"No algorithm specified. Available algorithms: ", availableAlgorithms>>,
      Undefined, NoCause, Undefined, availableAlgorithms)

NoProvidersError ==
  Err("NoProvidersError", <<"No encryption providers registered">>, Undefined,
      NoCause, Undefined, <<>>)

\* ------------------------------------------------- key material (types.ts)
KeyA == "A"
KeyB == "B"
ShortKey == "short"
Blank == " "
Segments == {KeyA, KeyB, ShortKey, Blank}

\* String.prototype.trim on one comma-separated segment
Trim(segment) == IF segment = Blank THEN "" ELSE segment

\* Buffer.from(base64Secret, 'base64').length
DecodedLength(base64Secret) ==
  IF base64Secret \in {KeyA, KeyB} THEN 32
  ELSE IF base64Secret = ShortKey THEN 16
  ELSE 0

\* PrivateEnvironment.SECRET: absent, or the string whose split(',') is
\* `segments` (<<"">> is the empty string)
AbsentSecret == [defined |-> FALSE, segments |-> <<>>]
SecretString(segments) == [defined |-> TRUE, segments |-> segments]

RECURSIVE TrimAndFilter(_)
TrimAndFilter(segments) ==
  IF segments = <<>> THEN <<>>
  ELSE (IF Trim(Head(segments)) = "" THEN <<>> ELSE <<Trim(Head(segments))>>)
         \o TrimAndFilter(Tail(segments))

getSecretList_fallbackKey(secret) ==
  IF ~secret.defined \/ secret.segments = <<"">>
     \/ Len(TrimAndFilter(secret.segments)) = 0
  THEN [ok |-> TRUE, list |-> <<KeyA>>, error |-> NoError]
  ELSE [ok |-> TRUE, list |-> TrimAndFilter(secret.segments), error |-> NoError]

getSecretList(secret) ==
  IF ~secret.defined \/ secret.segments = <<"">>
  THEN [ok |-> FALSE, list |-> <<>>, error |-> Thrown("Error", "Configuration error")]
  ELSE LET secrets == TrimAndFilter(secret.segments) IN
       IF Len(secrets) = 0
       THEN [ok |-> FALSE, list |-> <<>>,
             error |-> Thrown("Error", "Configuration error")]
       ELSE [ok |-> TRUE, list |-> secrets, error |-> NoError]

\* the CryptoKey that crypto.subtle.importKey derives from a secret
ImportKey(base64Secret) == [raw |-> base64Secret]
NoKey == [raw |-> ""]

getCryptoKey(base64Secret, cache) ==
  IF base64Secret \in DOMAIN cache
  THEN [ok |-> TRUE, key |-> cache[base64Secret], cache |-> cache,
        error |-> NoError, calls |-> {}]
  ELSE IF DecodedLength(base64Secret) # KeyBytes
  THEN [ok |-> FALSE, key |-> NoKey, cache |-> cache,
        error |-> Thrown("Error", "Invalid secret key length"), calls |-> {}]
  ELSE [ok |-> TRUE, key |-> ImportKey(base64Secret),
        cache |-> [s \in DOMAIN cache \cup {base64Secret} |->
                     IF s = base64Secret THEN ImportKey(base64Secret) ELSE cache[s]],
        error |-> NoError, calls |-> {"importKey"}]

getCryptoKeyStart_noLengthCheck(base64Secret, cache) ==
  IF base64Secret \in DOMAIN cache
  THEN [pc |-> "returned", key |-> cache[base64Secret], error |-> NoError]
  ELSE [pc |-> "importKey", key |-> NoKey, error |-> NoError]

\* getCryptoKey up to its await: the cached handle, the length error, or the
\* importKey call whose result the function waits for
getCryptoKeyStart(base64Secret, cache) ==
  IF base64Secret \in DOMAIN cache
  THEN [pc |-> "returned", key |-> cache[base64Secret], error |-> NoError]
  ELSE IF DecodedLength(base64Secret) # KeyBytes
  THEN [pc |-> "threw", key |-> NoKey,
        error |-> Thrown("Error", "Invalid secret key length")]
  ELSE [pc |-> "importKey", key |-> NoKey, error |-> NoError]

\* getCryptoKey from the moment importKey resolved: the handle is stored under
\* the secret in the cache as it is then, and returned
getCryptoKeyResume(base64Secret, cache) ==
  [key |-> ImportKey(base64Secret),
   cache |-> [s \in DOMAIN cache \cup {base64Secret} |->
                IF s = base64Secret THEN ImportKey(base64Secret) ELSE cache[s]]]

getActiveCryptoKey_lastEntry(secret, cache) ==
  LET secrets == getSecretList(secret) IN
  IF ~secrets.ok
  THEN [ok |-> FALSE, key |-> NoKey, cache |-> cache, error |-> secrets.error,
        calls |-> {}]
  ELSE getCryptoKey(secrets.list[Len(secrets.list)], cache)

getActiveCryptoKey(secret, cache) ==
  LET secrets == getSecretList(secret) IN
  IF ~secrets.ok
  THEN [ok |-> FALSE, key |-> NoKey, cache |-> cache, error |-> secrets.error,
        calls |-> {}]
  ELSE getCryptoKey(secrets.list[1], cache)

RECURSIVE AllKeys_skipInvalid(_, _)
AllKeys_skipInvalid(secrets, cache) ==
  IF secrets = <<>>
  THEN [ok |-> TRUE, keys |-> <<>>, cache |-> cache, error |-> NoError, calls |-> {}]
  ELSE LET first == getCryptoKey(Head(secrets), cache)
           rest == AllKeys_skipInvalid(Tail(secrets), first.cache)
       IN IF first.ok
          THEN [rest EXCEPT !.keys = <<first.key>> \o @,
                            !.calls = first.calls \cup @]
          ELSE rest

\* Promise.all(secrets.map(s => this.getCryptoKey(s))): every entry is looked up,
\* every valid one ends up cached, and the result is the first rejection if any.
RECURSIVE AllKeys(_, _)
AllKeys(secrets, cache) ==
  IF secrets = <<>>
  THEN [ok |-> TRUE, keys |-> <<>>, cache |-> cache, error |-> NoError, calls |-> {}]
  ELSE LET first == getCryptoKey(Head(secrets), cache)
           rest == AllKeys(Tail(secrets), first.cache)
       IN [ok |-> first.ok /\ rest.ok,
           keys |-> IF first.ok /\ rest.ok THEN <<first.key>> \o rest.keys ELSE <<>>,
           cache |-> rest.cache,
           error |-> IF ~first.ok THEN first.error ELSE rest.error,
           calls |-> first.calls \cup rest.calls]

RECURSIVE CachedKeys(_)
CachedKeys(cache) ==
  IF DOMAIN cache = {} THEN <<>>
  ELSE LET s == CHOOSE x \in DOMAIN cache : TRUE IN
       <<cache[s]>> \o CachedKeys([x \in DOMAIN cache \ {s} |-> cache[x]])

getAllCryptoKeys_withCached(secret, cache) ==
  LET secrets == getSecretList(secret) IN
  IF ~secrets.ok
  THEN [ok |-> FALSE, keys |-> <<>>, cache |-> cache, error |-> secrets.error,
        calls |-> {}]
  ELSE LET listed == AllKeys(secrets.list, cache) IN
       [listed EXCEPT !.keys = IF listed.ok THEN @ \o CachedKeys(cache) ELSE @]

getAllCryptoKeys(secret, cache) ==
  LET secrets == getSecretList(secret) IN
  IF ~secrets.ok
  THEN [ok |-> FALSE, keys |-> <<>>, cache |-> cache, error |-> secrets.error,
        calls |-> {}]
  ELSE AllKeys(secrets.list, cache)


\* ------------------------------- JWEA256GCMProvider (jweA256GcmProvider.ts)
NoBytes == [bytes |-> <<>>, xrep |-> 0]

\* the string '' returned for an empty plaintext
EmptyJwe ==
  [form |-> "empty", kid |-> Undefined, key |-> "", iv |-> 0, pt |-> NoBytes,
   tagOk |-> TRUE]

CompactEncrypt_fixedIv(encodedText, kid, key, iv) ==
  [form |-> "jwe", kid |-> kid, key |-> key.raw, iv |-> 0, pt |-> encodedText,
   tagOk |-> TRUE]

\* new CompactEncrypt(encodedText).setProtectedHeader(header).encrypt(key):
\* the compact serialization seals the bytes and the protected header under the
\* key with a fresh IV.
CompactEncrypt(encodedText, kid, key, iv) ==
  [form |-> "jwe", kid |-> kid, key |-> key.raw, iv |-> iv, pt |-> encodedText,
   tagOk |-> TRUE]

\* compactDecrypt(jwe, key): opens only a compact JWE whose tag verifies under
\* this key
CompactDecryptOpens(jwe, key) == jwe.form = "jwe" /\ jwe.tagOk /\ jwe.key = key.raw

ProviderEncrypt(plaintext, context, secret, cache, iv) ==
  IF IsEmptyString(plaintext)
  THEN [ok |-> TRUE, value |-> EmptyJwe, error |-> NoError, cache |-> cache,
        calls |-> {}, ivUsed |-> FALSE]
  ELSE LET encodedText == TextEncode(plaintext)
           kid == IF Truthy(context) THEN context ELSE Undefined
           active == getActiveCryptoKey(secret, cache)
       IN IF ~active.ok
          THEN [ok |-> FALSE, value |-> EmptyJwe, error |-> active.error,
                cache |-> active.cache, calls |-> active.calls, ivUsed |-> FALSE]
          ELSE [ok |-> TRUE,
                value |-> CompactEncrypt(encodedText, kid, active.key, iv),
                error |-> NoError, cache |-> active.cache,
                calls |-> active.calls \cup {"CompactEncrypt"}, ivUsed |-> TRUE]

\* what one failed attempt throws inside the loop
AttemptError(jwe, context, key) ==
  IF CompactDecryptOpens(jwe, key)
  THEN Thrown("Error", "Invalid context")
  ELSE IF jwe.form = "jwe"
  THEN Thrown("JWEDecryptionFailed", "decryption operation failed")
  ELSE Thrown("JWEInvalid", "Invalid Compact JWE")

ContextMismatch_strict(context, kid) == context # Undefined /\ kid # context

ContextMismatch_boundOnly(context, kid) ==
  Truthy(context) /\ kid # Undefined /\ kid # context

\* the guard `context && protectedHeader.kid !== context` of one attempt
ContextMismatch(context, kid) == Truthy(context) /\ kid # context

RECURSIVE TryKeys_lastError(_, _, _)
TryKeys_lastError(jwe, context, keys) ==
  IF keys = <<>>
  THEN [ok |-> FALSE, value |-> EmptyString,
        error |-> Thrown("Error", "Decryption failed"), attempts |-> <<>>]
  ELSE IF CompactDecryptOpens(jwe, Head(keys))
          /\ ~ContextMismatch(context, jwe.kid)
  THEN [ok |-> TRUE, value |-> TextDecode(jwe.pt), error |-> NoError,
        attempts |-> <<Head(keys)>>]
  ELSE IF Len(keys) = 1
  THEN [ok |-> FALSE, value |-> EmptyString,
        error |-> AttemptError(jwe, context, Head(keys)),
        attempts |-> <<Head(keys)>>]
  ELSE LET rest == TryKeys_lastError(jwe, context, Tail(keys)) IN
       [rest EXCEPT !.attempts = <<Head(keys)>> \o @]

RECURSIVE TryKeys_retryOnce(_, _, _)
TryKeys_retryOnce(jwe, context, keys) ==
  IF keys = <<>>
  THEN [ok |-> FALSE, value |-> EmptyString,
        error |-> Thrown("Error", "Decryption failed"), attempts |-> <<>>]
  ELSE IF CompactDecryptOpens(jwe, Head(keys))
          /\ ~ContextMismatch(context, jwe.kid)
  THEN [ok |-> TRUE, value |-> TextDecode(jwe.pt), error |-> NoError,
        attempts |-> <<Head(keys)>>]
  ELSE LET rest == TryKeys_retryOnce(jwe, context, Tail(keys)) IN
       [rest EXCEPT !.attempts = <<Head(keys), Head(keys)>> \o @]

\* the for loop over the rotated keys; the error of a failed attempt is
\* dropped. attempts lists the keys handed to compactDecrypt, in call order
RECURSIVE TryKeys(_, _, _)
TryKeys(jwe, context, keys) ==
  IF keys = <<>>
  THEN [ok |-> FALSE, value |-> EmptyString,
        error |-> Thrown("Error", "Decryption failed"), attempts |-> <<>>]
  ELSE IF CompactDecryptOpens(jwe, Head(keys))
          /\ ~ContextMismatch(context, jwe.kid)
  THEN [ok |-> TRUE, value |-> TextDecode(jwe.pt), error |-> NoError,
        attempts |-> <<Head(keys)>>]
  ELSE LET rest == TryKeys(jwe, context, Tail(keys)) IN
       [rest EXCEPT !.attempts = <<Head(keys)>> \o @]

\* data is metadata.data: Undefined when the field is missing
ProviderDecrypt(data, context, secret, cache) ==
  IF data = Undefined \/ data[1].form = "empty"
  THEN [ok |-> TRUE, value |-> EmptyString, error |-> NoError, cache |-> cache,
        calls |-> {}, attempts |-> <<>>]
  ELSE LET all == getAllCryptoKeys(secret, cache) IN
       IF ~all.ok
       THEN [ok |-> FALSE, value |-> EmptyString, error |-> all.error,
             cache |-> all.cache, calls |-> all.calls, attempts |-> <<>>]
       ELSE LET tried == TryKeys(data[1], context, all.keys) IN
            [ok |-> tried.ok, value |-> tried.value, error |-> tried.error,
             cache |-> all.cache, calls |-> all.calls \cup {"compactDecrypt"},
             attempts |-> tried.attempts]

\* --------------------------------- EncryptionService (encryptionService.ts)
JWE_A256GCM == "JWE-A256GCM"

\* new JWEA256GCMProvider()
JWEA256GCMProvider == [ALGORITHM_IDENTIFIER |-> JWE_A256GCM]

\* another provider object of the same class, supplied before the one above
EarlierProvider == [ALGORITHM_IDENTIFIER |-> JWE_A256GCM, supplied |-> "earlier"]

MapSet_keepFirst(map, key, value) ==
  IF \E i \in 1..Len(map) : map[i].key = key
  THEN map
  ELSE Append(map, [key |-> key, provider |-> value])

\* Map.prototype.set on a Map kept as its entries in insertion order
RECURSIVE MapSet(_, _, _)
MapSet(map, key, value) ==
  IF map = <<>> THEN <<[key |-> key, provider |-> value]>>
  ELSE IF Head(map).key = key
  THEN <<[key |-> key, provider |-> value]>> \o Tail(map)
  ELSE <<Head(map)>> \o MapSet(Tail(map), key, value)

RECURSIVE createProviderMap(_)
createProviderMap(providerList) ==
  IF providerList = <<>> THEN <<>>
  ELSE LET provider == providerList[Len(providerList)] IN
       MapSet(createProviderMap(SubSeq(providerList, 1, Len(providerList) - 1)),
              provider.ALGORITHM_IDENTIFIER, provider)

\* this.providers.get(algorithm): Undefined or the provider
ProvidersGet(registry, algorithm) ==
  LET hits == SelectSeq(registry, LAMBDA e : Some(e.key) = algorithm) IN
  IF hits = <<>> THEN Undefined ELSE Some(hits[1].provider)

getSupportedAlgorithms(registry) == [i \in 1..Len(registry) |-> registry[i].key]

isAlgorithmSupported(registry, algorithm) == ProvidersGet(registry, Some(algorithm)) # Undefined

\* the string handed around: form "object" is btoa(JSON.stringify(meta))
NoMeta == [algorithm |-> Undefined, version |-> 0, data |-> Undefined]
EncodeMetadata(meta) == [form |-> "object", meta |-> meta]
EmptyText == [form |-> "empty", meta |-> NoMeta]
NotBase64Text == [form |-> "notBase64", meta |-> NoMeta]
NotJsonText == [form |-> "notJson", meta |-> NoMeta]

\* JSON.parse(atob(encryptedText))
ParseMetadata(encryptedText) ==
  IF encryptedText.form = "notBase64"
  THEN [ok |-> FALSE, meta |-> NoMeta,
        error |-> Thrown("InvalidCharacterError", "Invalid character")]
  ELSE IF encryptedText.form # "object"
  THEN [ok |-> FALSE, meta |-> NoMeta,
        error |-> Thrown("SyntaxError", "Unexpected token")]
  ELSE [ok |-> TRUE, meta |-> encryptedText.meta, error |-> NoError]

getAlgorithmFromEncrypted(encryptedText) ==
  LET parsed == ParseMetadata(encryptedText) IN
  IF parsed.ok THEN parsed.meta.algorithm ELSE Undefined

\* the metadata object built around the provider's result
WrapMetadata_noAlgorithm(provider, encrypted) ==
  [algorithm |-> Undefined, version |-> 1, data |-> Some(encrypted)]

WrapMetadata_unversioned(provider, encrypted) ==
  [algorithm |-> Some(provider.ALGORITHM_IDENTIFIER), version |-> 0,
   data |-> Some(encrypted)]

WrapMetadata(provider, encrypted) ==
  [algorithm |-> Some(provider.ALGORITHM_IDENTIFIER), version |-> 1,
   data |-> Some(encrypted)]

ServiceEncrypt(plaintext, options, registry, secret, cache, iv) ==
  IF ~Truthy(options.algorithm)
  THEN [ok |-> FALSE, value |-> EmptyText,
        error |-> NoAlgorithmSpecifiedError(getSupportedAlgorithms(registry)),
        cache |-> cache, calls |-> {}, ivUsed |-> FALSE]
  ELSE LET provider == ProvidersGet(registry, options.algorithm) IN
    IF provider = Undefined
    THEN [ok |-> FALSE, value |-> EmptyText,
          error |-> UnsupportedAlgorithmError(options.algorithm,
                                              getSupportedAlgorithms(registry)),
          cache |-> cache, calls |-> {}, ivUsed |-> FALSE]
    ELSE LET encrypted == ProviderEncrypt(plaintext, options.context, secret, cache, iv)
         IN IF ~encrypted.ok
            THEN [ok |-> FALSE, value |-> EmptyText,
                  error |-> EncryptionError("Encryption failed", options.algorithm,
                                            AsCause(encrypted.error)),
                  cache |-> encrypted.cache,
                  calls |-> encrypted.calls \cup {"provider.encrypt"},
                  ivUsed |-> FALSE]
            ELSE [ok |-> TRUE,
                  value |-> EncodeMetadata(WrapMetadata(provider[1], encrypted.value)),
                  error |-> NoError, cache |-> encrypted.cache,
                  calls |-> encrypted.calls \cup {"provider.encrypt"},
                  ivUsed |-> encrypted.ivUsed]

IsEmptyText_never(encryptedText) == FALSE

\* the guard `!encryptedText` of decrypt
IsEmptyText(encryptedText) == encryptedText.form = "empty"

CatchDecrypt_wrapAll(error) ==
  DecryptionError("Decryption failed", Undefined, AsCause(error))

CatchDecrypt_rethrowAll(error) == error

\* the catch clause of decrypt: the two typed errors pass, anything else is wrapped
CatchDecrypt(error) ==
  IF error.type \in {"UnsupportedAlgorithmError", "DecryptionError"}
  THEN error
  ELSE DecryptionError("Decryption failed", Undefined, AsCause(error))

\* options?.context
OptionsContext(options) == IF options.given THEN options.context ELSE Undefined

ServiceDecrypt(encryptedText, options, registry, secret, cache) ==
  IF IsEmptyText(encryptedText)
  THEN [ok |-> FALSE, value |-> EmptyString,
        error |-> DecryptionError("Empty ciphertext", Undefined, NoCause),
        cache |-> cache, calls |-> {}]
  ELSE LET parsed == ParseMetadata(encryptedText) IN
    IF ~parsed.ok
    THEN [ok |-> FALSE, value |-> EmptyString,
          error |-> CatchDecrypt(parsed.error),
          cache |-> cache, calls |-> {"atob"}]
    ELSE LET provider == ProvidersGet(registry, parsed.meta.algorithm) IN
      IF provider = Undefined
      THEN [ok |-> FALSE, value |-> EmptyString,
            error |-> CatchDecrypt(
                        UnsupportedAlgorithmError(parsed.meta.algorithm,
                                                  getSupportedAlgorithms(registry))),
            cache |-> cache, calls |-> {"atob", "providers.get"}]
      ELSE LET decrypted == ProviderDecrypt(parsed.meta.data, OptionsContext(options),
                                            secret, cache)
           IN IF decrypted.ok
              THEN [ok |-> TRUE, value |-> decrypted.value, error |-> NoError,
                    cache |-> decrypted.cache,
                    calls |-> decrypted.calls
                                \cup {"atob", "providers.get", "provider.decrypt"}]
              ELSE [ok |-> FALSE, value |-> EmptyString,
                    error |-> CatchDecrypt(decrypted.error),
                    cache |-> decrypted.cache,
                    calls |-> decrypted.calls
                                \cup {"atob", "providers.get", "provider.decrypt"}]

\* what reEncrypt gives back when `await this.decrypt(...)` threw
RejectedByDecrypt(decrypted) ==
  [ok |-> FALSE, value |-> EmptyText, error |-> decrypted.error,
   cache |-> decrypted.cache, calls |-> decrypted.calls \cup {"decrypt"},
   ivUsed |-> FALSE, step |-> "decrypt", decrypted |-> EmptyString]

\* what reEncrypt gives back once `this.encrypt(decrypted, newOptions)` settled
SettledByEncrypt(decrypted, encrypted) ==
  [ok |-> encrypted.ok, value |-> encrypted.value, error |-> encrypted.error,
   cache |-> encrypted.cache,
   calls |-> decrypted.calls \cup encrypted.calls \cup {"decrypt", "encrypt"},
   ivUsed |-> encrypted.ivUsed,
   step |-> IF encrypted.ok THEN "ok" ELSE "encrypt",
   decrypted |-> decrypted.value]

EncryptDecrypted_translated(decrypted, newOptions, registry, secret, iv) ==
  IF ~decrypted.ok
  THEN [RejectedByDecrypt(decrypted) EXCEPT
          !.error = EncryptionError("Re-encryption failed", newOptions.algorithm,
                                    AsCause(decrypted.error))]
  ELSE SettledByEncrypt(decrypted,
                        ServiceEncrypt(decrypted.value, newOptions, registry, secret,
                                       decrypted.cache, iv))

\* the second statement of reEncrypt, reached only when decrypt returned
EncryptDecrypted(decrypted, newOptions, registry, secret, iv) ==
  IF ~decrypted.ok
  THEN RejectedByDecrypt(decrypted)
  ELSE SettledByEncrypt(decrypted,
                        ServiceEncrypt(decrypted.value, newOptions, registry, secret,
                                       decrypted.cache, iv))

\* reEncrypt: decrypt under oldOptions, then encrypt what came back under
\* newOptions; an error of either step leaves the function as it was thrown
ServiceReEncrypt(encryptedText, oldOptions, newOptions, registry, secret, cache, iv) ==
  EncryptDecrypted(ServiceDecrypt(encryptedText, oldOptions, registry, secret, cache),
                   newOptions, registry, secret, iv)

\* ----------------------------------------------- construction (factory.ts)
CopyMap_sameObject(map) == [entries |-> map, aliased |-> TRUE]

\* new Map(config.providers): a Map object of its own with the entries of the
\* argument; aliased tells whether writes to the argument show in the result
CopyMap(map) == [entries |-> map, aliased |-> FALSE]

EncryptionServiceConstructor_noCheck(providerMap) ==
  [ok |-> TRUE, error |-> NoError,
   instance |-> [providers |-> providerMap, cryptoKeyCache |-> <<>>]]

\* new EncryptionService({providers}): the service is its registry; the provider
\* it registers starts with an empty key cache
EncryptionServiceConstructor(providerMap) ==
  IF Len(providerMap) = 0
  THEN [ok |-> FALSE, error |-> NoProvidersError,
        instance |-> [providers |-> <<>>, cryptoKeyCache |-> <<>>]]
  ELSE [ok |-> TRUE, error |-> NoError,
        instance |-> [providers |-> providerMap, cryptoKeyCache |-> <<>>]]

createEncryptionService(providerList) ==
  EncryptionServiceConstructor(createProviderMap(providerList))

getEncryptionService_alwaysNew(singleton, heap) ==
  [serviceInstance |-> Some(Len(heap) + 1),
   instances |-> Append(heap, createEncryptionService(<<JWEA256GCMProvider>>).instance),
   result |-> Len(heap) + 1]

\* getEncryptionService(): `singleton` is serviceInstance (Undefined or the
\* reference), `heap` the instances constructed so far; a reference is an index
\* into the heap
getEncryptionService(singleton, heap) ==
  IF singleton = Undefined
  THEN LET made == createEncryptionService(<<JWEA256GCMProvider>>)
       IN [serviceInstance |-> Some(Len(heap) + 1),
           instances |-> Append(heap, made.instance),
           result |-> Len(heap) + 1]
  ELSE [serviceInstance |-> singleton, instances |-> heap, result |-> singleton[1]]

resetEncryptionService == Undefined


\* ------------------------------------------------------------ the callers
\* "", "a", "é" + U+1F44B (a surrogate pair), U+FEFF + "a", and the test suite's
\* 'x'.repeat(n)
Plaintexts ==
  {EmptyString, Str(<<97>>), Str(<<233, 55357, 56395>>), Str(<<65279, 97>>),
   XRepeat(TenMiB), XRepeat(ElevenMiB)}

EncryptContexts == {Undefined, Some(""), Some("c1")}
DecryptContexts == {Undefined, Some(""), Some("c1"), Some("c2")}
EncryptAlgorithms == {Undefined, Some(""), Some("INVALID"), Some(JWE_A256GCM)}

EncryptOptions == [algorithm : EncryptAlgorithms, context : EncryptContexts]

\* decrypt(e), decrypt(e, {}) and decrypt(e, {context})
NoOptions == [given |-> FALSE, context |-> Undefined]
DecryptOptions == {NoOptions} \cup [given : {TRUE}, context : DecryptContexts]

RECURSIVE SeqsUpTo(_, _)
SeqsUpTo(S, n) ==
  IF n = 0 THEN {<<>>}
  ELSE LET shorter == SeqsUpTo(S, n - 1) IN
       shorter \cup {Append(q, x) : q \in {r \in shorter : Len(r) = n - 1}, x \in S}

SecretValues ==
  {AbsentSecret, SecretString(<<"">>)}
    \cup {SecretString(q) : q \in SeqsUpTo(Segments, MaxSecrets) \ {<<>>}}

\* a string that is no compact JWE
GarbageJwe ==
  [form |-> "garbage", kid |-> Undefined, key |-> "", iv |-> 0, pt |-> NoBytes,
   tagOk |-> FALSE]

Envelope(algorithm, data) ==
  EncodeMetadata([algorithm |-> algorithm, version |-> 1, data |-> data])

\* strings that no encrypt call returned
MalformedTexts ==
  {NotBase64Text, NotJsonText,
   Envelope(Undefined, Some(GarbageJwe)),
   Envelope(Some(JWE_A256GCM), Undefined),
   Envelope(Undefined, Undefined)}

ForgedTexts ==
  MalformedTexts
    \cup {EmptyText,
          Envelope(Some("UNKNOWN"), Some(GarbageJwe)),
          Envelope(Some(JWE_A256GCM), Some(GarbageJwe))}

\* an envelope whose algorithm field was rewritten
Relabel(text, algorithm) == EncodeMetadata([text.meta EXCEPT !.algorithm = algorithm])

\* an envelope with one ciphertext byte flipped
Tamper(text) ==
  IF text.form = "object" /\ text.meta.data # Undefined
     /\ text.meta.data[1].form = "jwe"
  THEN EncodeMetadata([text.meta EXCEPT !.data = Some([@[1] EXCEPT !.tagOk = FALSE])])
  ELSE text

\* the envelope the caller holds, with the arguments of the call that made it
NoHeld ==
  [has |-> FALSE, text |-> EmptyText, plaintext |-> EmptyString,
   options |-> [algorithm |-> Undefined, context |-> Undefined]]

CallerTexts ==
  ForgedTexts \cup (IF held.has THEN {held.text, Tamper(held.text)} ELSE {})

\* the logical tasks that hold references to services, and the absent reference
Tasks == {"t1", "t2"}
NoRef == 0

\* how the call just made ended when it was a reEncrypt or a call of factory.ts:
\* step is "ok" or the step that threw
NoOutcome == [op |-> "none", step |-> "none", error |-> NoError]

\* the Map passed to `new EncryptionService({providers})`, which its owner can
\* still write to
NoCallerMap == [entries |-> <<>>, aliased |-> FALSE]
OtherProvider == [ALGORITHM_IDENTIFIER |-> "OTHER"]

\* the getCryptoKey calls that can be under way at once
KeyCalls == 1..MaxKeyCalls
IdleCall == [pc |-> "idle", secret |-> "", key |-> NoKey, imported |-> FALSE]

\* ------------------------------------------ the signal cookie (core.ts)
\* the values pushed are numbered: each push stores fresh random PKCE material
NullValue == 0

\* JsonCodec.encode: JSON.stringify(schema.parse(value))
JsonEncode(value) == [json |-> "object", value |-> value]

\* JsonCodec.decode: the parsed value, or null when parsing or the schema fails
JsonDecode(raw) == IF raw.json = "object" THEN raw.value ELSE NullValue

\* RawCookieHandle.get on a storage that holds `stored` for the cookie's name
RawGet(stored) == IF stored = Undefined THEN NullValue ELSE JsonDecode(stored[1])

\* RawCookieHandle.set and RawCookieHandle.remove: what the storage holds then
RawSet(value) == Some(JsonEncode(value))
RawRemove == Undefined

\* the consume() calls that can be under way at once
Consumers == 1..MaxConsumers
IdleConsume == [pc |-> "idle", value |-> NullValue]

\* ------------------------------------------------------------ the machine
\* a call made in the current state, with everything it returns and changes
EncryptCall(plaintext, options) ==
  ServiceEncrypt(plaintext, options, providers, SECRET, cryptoKeyCache, ivCounter + 1)

DecryptCall(encryptedText, options) ==
  ServiceDecrypt(encryptedText, options, providers, SECRET, cryptoKeyCache)

\* createEncryptionService([new JWEA256GCMProvider()]) with an empty key cache
Init ==
  /\ SECRET \in SecretValues
  /\ cryptoKeyCache = <<>>
  /\ providers = createProviderMap(<<JWEA256GCMProvider>>)
  /\ ivCounter = 0
  /\ held = NoHeld
  /\ serviceInstance = Undefined
  /\ instances = <<>>
  /\ refs = [task \in Tasks |-> NoRef]
  /\ outcome = NoOutcome
  /\ callerMap = NoCallerMap
  /\ getting = [call \in KeyCalls |-> IdleCall]
  /\ cookieJar = Undefined
  /\ consuming = [consumer \in Consumers |-> IdleConsume]
  /\ delivered = <<>>

\* the deployment's SECRET value is replaced (key rotation)
SetSecret(value) ==
  /\ value # SECRET
  /\ SECRET' = value
  /\ UNCHANGED <<cryptoKeyCache, providers, ivCounter, held>>
  /\ outcome' = NoOutcome
  /\ UNCHANGED <<factoryVars, laterVars>>

\* service.encrypt(plaintext, options); the caller keeps the returned envelope or
\* goes on holding an earlier one
Encrypt(plaintext, options, keep) ==
  LET out == EncryptCall(plaintext, options)
  IN /\ out.ivUsed => ivCounter < MaxEncrypts
     /\ cryptoKeyCache' = out.cache
     /\ ivCounter' = IF out.ivUsed THEN ivCounter + 1 ELSE ivCounter
     /\ held' = IF out.ok /\ keep
                THEN [has |-> TRUE, text |-> out.value, plaintext |-> plaintext,
                      options |-> options]
                ELSE held
     /\ UNCHANGED <<SECRET, providers>>
     /\ outcome' = NoOutcome
     /\ UNCHANGED <<factoryVars, laterVars>>

\* service.decrypt(encryptedText, options)
Decrypt(encryptedText, options) ==
  /\ cryptoKeyCache' = DecryptCall(encryptedText, options).cache
  /\ UNCHANGED <<SECRET, providers, ivCounter, held>>
  /\ outcome' = NoOutcome
  /\ UNCHANGED <<factoryVars, laterVars>>

\* the option records of the calls that are steps of the machine: an encrypt
\* under any other algorithm value fails like one of these and changes nothing,
\* and the keys a decrypt loads do not depend on its context
SteppedEncryptOptions ==
  [algorithm : {Undefined, Some(JWE_A256GCM)}, context : EncryptContexts]
SteppedDecryptOptions == {NoOptions, [given |-> TRUE, context |-> Some("c1")]}

Next ==
  \/ \E value \in SecretValues : SetSecret(value)
  \/ \E plaintext \in Plaintexts, options \in SteppedEncryptOptions :
       Encrypt(plaintext, options, TRUE)
  \/ \E encryptedText \in CallerTexts, options \in SteppedDecryptOptions :
       Decrypt(encryptedText, options)

Spec == Init /\ [][Next]_vars

\* the same machine over the secret values of one deployment's rotations: a
\* missing or blank secret, single keys, two keys in both orders, a key listed
\* twice, and a list with a malformed entry before or after a valid one; here
\* the caller may also go on holding an earlier envelope
ServiceSecrets ==
  {AbsentSecret, SecretString(<<Blank>>), SecretString(<<KeyA>>),
   SecretString(<<KeyB>>), SecretString(<<KeyA, KeyB>>),
   SecretString(<<KeyB, KeyA>>), SecretString(<<KeyA, KeyA>>),
   SecretString(<<KeyA, ShortKey>>), SecretString(<<ShortKey, KeyA>>)}

InitService ==
  /\ SECRET \in ServiceSecrets
  /\ cryptoKeyCache = <<>>
  /\ providers = createProviderMap(<<JWEA256GCMProvider>>)
  /\ ivCounter = 0
  /\ held = NoHeld
  /\ serviceInstance = Undefined
  /\ instances = <<>>
  /\ refs = [task \in Tasks |-> NoRef]
  /\ outcome = NoOutcome
  /\ callerMap = NoCallerMap
  /\ getting = [call \in KeyCalls |-> IdleCall]
  /\ cookieJar = Undefined
  /\ consuming = [consumer \in Consumers |-> IdleConsume]
  /\ delivered = <<>>

NextService ==
  \/ \E value \in ServiceSecrets : SetSecret(value)
  \/ \E plaintext \in Plaintexts, options \in SteppedEncryptOptions, keep \in BOOLEAN :
       Encrypt(plaintext, options, keep)
  \/ \E encryptedText \in CallerTexts, options \in SteppedDecryptOptions :
       Decrypt(encryptedText, options)

SpecService == InitService /\ [][NextService]_vars

\* ---------------------------------------------- the machine with reEncrypt
ReEncryptCall(encryptedText, oldOptions, newOptions) ==
  ServiceReEncrypt(encryptedText, oldOptions, newOptions, providers, SECRET,
                   cryptoKeyCache, ivCounter + 1)

\* service.reEncrypt(encryptedText, oldOptions, newOptions); the caller replaces
\* its envelope by the new one, whose plaintext is what the decrypt step returned
ReEncrypted(out, newOptions) ==
  /\ out.ivUsed => ivCounter < MaxEncrypts
  /\ cryptoKeyCache' = out.cache
  /\ ivCounter' = IF out.ivUsed THEN ivCounter + 1 ELSE ivCounter
  /\ held' = IF out.ok
             THEN [has |-> TRUE, text |-> out.value, plaintext |-> out.decrypted,
                   options |-> newOptions]
             ELSE held
  /\ outcome' = [op |-> "reEncrypt", step |-> out.step, error |-> out.error]
  /\ UNCHANGED <<SECRET, providers>>
  /\ UNCHANGED <<factoryVars, laterVars>>

ReEncrypt(encryptedText, oldOptions, newOptions) ==
  ReEncrypted(ReEncryptCall(encryptedText, oldOptions, newOptions), newOptions)

\* the secret values, plaintexts and options this machine's callers use
ReEncryptSecrets ==
  {AbsentSecret, SecretString(<<KeyA>>), SecretString(<<KeyB, KeyA>>),
   SecretString(<<KeyB>>), SecretString(<<KeyA, ShortKey>>)}
ReEncryptPlaintexts == {EmptyString, Str(<<97>>), Str(<<65279, 97>>)}
ReEncryptFrom == [algorithm : {Some(JWE_A256GCM)}, context : {Undefined, Some("c1")}]
ReEncryptOld ==
  {NoOptions, [given |-> TRUE, context |-> Some("c1")],
   [given |-> TRUE, context |-> Some("c2")]}
ReEncryptNew ==
  [algorithm : {Undefined, Some("INVALID"), Some(JWE_A256GCM)},
   context : {Undefined, Some("c2")}]
ReEncryptTexts ==
  {Envelope(Some("UNKNOWN"), Some(GarbageJwe)),
   Envelope(Some(JWE_A256GCM), Some(GarbageJwe))}
    \cup (IF held.has THEN {held.text, Tamper(held.text)} ELSE {})

InitReEncrypt ==
  /\ SECRET \in ReEncryptSecrets
  /\ cryptoKeyCache = <<>>
  /\ providers = createProviderMap(<<JWEA256GCMProvider>>)
  /\ ivCounter = 0
  /\ held = NoHeld
  /\ serviceInstance = Undefined
  /\ instances = <<>>
  /\ refs = [task \in Tasks |-> NoRef]
  /\ outcome = NoOutcome
  /\ callerMap = NoCallerMap
  /\ getting = [call \in KeyCalls |-> IdleCall]
  /\ cookieJar = Undefined
  /\ consuming = [consumer \in Consumers |-> IdleConsume]
  /\ delivered = <<>>

NextReEncrypt ==
  \/ \E value \in ReEncryptSecrets : SetSecret(value)
  \/ \E plaintext \in ReEncryptPlaintexts, options \in ReEncryptFrom :
       Encrypt(plaintext, options, TRUE)
  \/ \E encryptedText \in ReEncryptTexts, oldOptions \in ReEncryptOld,
         newOptions \in ReEncryptNew :
       ReEncrypt(encryptedText, oldOptions, newOptions)

SpecReEncrypt == InitReEncrypt /\ [][NextReEncrypt]_vars

\* ------------------------------------- the machine of factory.ts callers
\* how a factory call ended
Ended(op, step, error) == [op |-> op, step |-> step, error |-> error]

\* createEncryptionService(providerList): a service that was constructed joins
\* the instances, a constructor that threw leaves none
Constructed(made) ==
  /\ made.ok => Len(instances) < MaxInstances
  /\ instances' = IF made.ok THEN Append(instances, made.instance) ELSE instances
  /\ outcome' = Ended("createEncryptionService",
                      IF made.ok THEN "ok" ELSE "constructor", made.error)
  /\ UNCHANGED <<serviceInstance, refs>>
  /\ UNCHANGED <<serviceVars, laterVars>>

Construct(providerList) == Constructed(createEncryptionService(providerList))

\* const service = getEncryptionService() in task `task`
Looked(task, got) ==
  /\ Len(got.instances) <= MaxInstances
  /\ serviceInstance' = got.serviceInstance
  /\ instances' = got.instances
  /\ refs' = [refs EXCEPT ![task] = got.result]
  /\ outcome' = Ended("getEncryptionService", "ok", NoError)
  /\ UNCHANGED <<serviceVars, laterVars>>

GetEncryptionService(task) ==
  Looked(task, getEncryptionService(serviceInstance, instances))

ResetEncryptionService ==
  /\ serviceInstance' = resetEncryptionService
  /\ outcome' = Ended("resetEncryptionService", "ok", NoError)
  /\ UNCHANGED <<instances, refs>>
  /\ UNCHANGED <<serviceVars, laterVars>>

\* calls on the service a reference points to
EncryptBy(ref, plaintext, options) ==
  ServiceEncrypt(plaintext, options, instances[ref].providers, SECRET,
                 instances[ref].cryptoKeyCache, ivCounter + 1)

DecryptBy(ref, encryptedText, options) ==
  ServiceDecrypt(encryptedText, options, instances[ref].providers, SECRET,
                 instances[ref].cryptoKeyCache)

\* service.encrypt(plaintext, options) through the reference of `task`
EncryptedOn(task, plaintext, options, out) ==
  /\ out.ivUsed => ivCounter < MaxEncrypts
  /\ instances' = [instances EXCEPT ![refs[task]].cryptoKeyCache = out.cache]
  /\ ivCounter' = IF out.ivUsed THEN ivCounter + 1 ELSE ivCounter
  /\ held' = IF out.ok
             THEN [has |-> TRUE, text |-> out.value, plaintext |-> plaintext,
                   options |-> options]
             ELSE held
  /\ outcome' = NoOutcome
  /\ UNCHANGED <<SECRET, cryptoKeyCache, providers, serviceInstance, refs>>
  /\ UNCHANGED laterVars

EncryptOn(task, plaintext, options) ==
  /\ refs[task] # NoRef
  /\ EncryptedOn(task, plaintext, options, EncryptBy(refs[task], plaintext, options))

\* service.decrypt(held.text, options) through the reference of `task`
DecryptOn(task, options) ==
  /\ refs[task] # NoRef
  /\ held.has
  /\ instances' = [instances EXCEPT ![refs[task]].cryptoKeyCache =
                                       DecryptBy(refs[task], held.text, options).cache]
  /\ outcome' = NoOutcome
  /\ UNCHANGED <<serviceInstance, refs>>
  /\ UNCHANGED <<serviceVars, laterVars>>

FactorySecrets == {AbsentSecret, SecretString(<<KeyA>>), SecretString(<<KeyB, KeyA>>)}
FactoryPlaintexts == {EmptyString, Str(<<100, 97, 116, 97>>)}
FactoryOptions == [algorithm : {Some(JWE_A256GCM)}, context : {Undefined, Some("c1")}]
ProviderLists ==
  {<<>>, <<JWEA256GCMProvider>>, <<EarlierProvider, JWEA256GCMProvider>>}

InitFactory ==
  /\ SECRET \in FactorySecrets
  /\ cryptoKeyCache = <<>>
  /\ providers = createProviderMap(<<JWEA256GCMProvider>>)
  /\ ivCounter = 0
  /\ held = NoHeld
  /\ serviceInstance = Undefined
  /\ instances = <<>>
  /\ refs = [task \in Tasks |-> NoRef]
  /\ outcome = NoOutcome
  /\ callerMap = NoCallerMap
  /\ getting = [call \in KeyCalls |-> IdleCall]
  /\ cookieJar = Undefined
  /\ consuming = [consumer \in Consumers |-> IdleConsume]
  /\ delivered = <<>>

NextFactory ==
  \/ \E providerList \in ProviderLists : Construct(providerList)
  \/ \E task \in Tasks : GetEncryptionService(task)
  \/ ResetEncryptionService
  \/ \E task \in Tasks, plaintext \in FactoryPlaintexts, options \in FactoryOptions :
       EncryptOn(task, plaintext, options)
  \/ \E task \in Tasks, options \in {NoOptions, [given |-> TRUE, context |-> Some("c1")]} :
       DecryptOn(task, options)

SpecFactory == InitFactory /\ [][NextFactory]_vars

\* --------------------- the machine of a service built from a caller's Map
\* the owner of the Map writes to it after the service was constructed:
\* clear(), set('OTHER', provider) or delete followed by set
CallerMapWrites(entries) ==
  {<<>>, MapSet(entries, OtherProvider.ALGORITHM_IDENTIFIER, OtherProvider),
   createProviderMap(<<EarlierProvider>>)} \ {entries}

MutateCallerMap(entries) ==
  /\ callerMap' = [callerMap EXCEPT !.entries = entries]
  /\ providers' = IF callerMap.aliased THEN entries ELSE providers
  /\ outcome' = NoOutcome
  /\ UNCHANGED <<SECRET, cryptoKeyCache, ivCounter, held>>
  /\ UNCHANGED <<factoryVars, getting, cookieVars>>

\* the calls that only read: they return and change nothing
Queried(op, result) ==
  /\ outcome' = Ended(op, "ok", NoError)
  /\ UNCHANGED <<serviceVars, factoryVars, laterVars>>

GetSupportedAlgorithms ==
  Queried("getSupportedAlgorithms", getSupportedAlgorithms(providers))

IsAlgorithmSupported(algorithm) ==
  Queried("isAlgorithmSupported", isAlgorithmSupported(providers, algorithm))

GetAlgorithmFromEncrypted(encryptedText) ==
  Queried("getAlgorithmFromEncrypted", getAlgorithmFromEncrypted(encryptedText))

RegistrySecrets == {SecretString(<<KeyA>>), SecretString(<<KeyB, ShortKey>>)}
RegistryMaps == {createProviderMap(<<JWEA256GCMProvider>>)}

\* const map = new Map([[id, provider]]); new EncryptionService({providers: map})
InitRegistry ==
  /\ SECRET \in RegistrySecrets
  /\ cryptoKeyCache = <<>>
  /\ \E map \in RegistryMaps :
       /\ providers = CopyMap(map).entries
       /\ callerMap = [entries |-> map, aliased |-> CopyMap(map).aliased]
  /\ ivCounter = 0
  /\ held = NoHeld
  /\ serviceInstance = Undefined
  /\ instances = <<>>
  /\ refs = [task \in Tasks |-> NoRef]
  /\ outcome = NoOutcome
  /\ getting = [call \in KeyCalls |-> IdleCall]
  /\ cookieJar = Undefined
  /\ consuming = [consumer \in Consumers |-> IdleConsume]
  /\ delivered = <<>>

NextRegistry ==
  \/ \E entries \in CallerMapWrites(callerMap.entries) : MutateCallerMap(entries)
  \/ \E plaintext \in ReEncryptPlaintexts, options \in ReEncryptNew :
       Encrypt(plaintext, options, TRUE)
  \/ \E encryptedText \in ReEncryptTexts, options \in ReEncryptOld :
       Decrypt(encryptedText, options)
  \/ \E encryptedText \in ReEncryptTexts, oldOptions \in ReEncryptOld,
         newOptions \in ReEncryptNew :
       ReEncrypt(encryptedText, oldOptions, newOptions)
  \/ GetSupportedAlgorithms
  \/ \E algorithm \in {JWE_A256GCM, "OTHER"} : IsAlgorithmSupported(algorithm)
  \/ \E encryptedText \in ReEncryptTexts : GetAlgorithmFromEncrypted(encryptedText)

SpecRegistry == InitRegistry /\ [][NextRegistry]_vars

\* -------------------------- the machine of interleaved getCryptoKey calls
\* encrypt asks for the first listed secret, decrypt for every listed one
ListedSecrets ==
  LET secrets == getSecretList(SECRET) IN
  IF secrets.ok THEN {secrets.list[i] : i \in 1..Len(secrets.list)} ELSE {}

\* a call runs up to its await
BeginGetCryptoKey(call, base64Secret) ==
  /\ getting[call].pc = "idle"
  /\ getting' = [getting EXCEPT ![call] =
                   [pc |-> getCryptoKeyStart(base64Secret, cryptoKeyCache).pc,
                    secret |-> base64Secret,
                    key |-> getCryptoKeyStart(base64Secret, cryptoKeyCache).key,
                    imported |-> FALSE]]
  /\ UNCHANGED <<serviceVars, factoryVars, outcome, callerMap, cookieVars>>

\* importKey resolved: the call goes on after its await and returns
ResolveImportKey(call) ==
  /\ getting[call].pc = "importKey"
  /\ cryptoKeyCache' = getCryptoKeyResume(getting[call].secret, cryptoKeyCache).cache
  /\ getting' = [getting EXCEPT ![call] =
                   [pc |-> "returned", secret |-> getting[call].secret,
                    key |-> getCryptoKeyResume(getting[call].secret, cryptoKeyCache).key,
                    imported |-> TRUE]]
  /\ UNCHANGED <<SECRET, providers, ivCounter, held>>
  /\ UNCHANGED <<factoryVars, outcome, callerMap, cookieVars>>

\* the encrypt or decrypt that awaited the call takes the handle or the error
SettleGetCryptoKey(call) ==
  /\ getting[call].pc \in {"returned", "threw"}
  /\ getting' = [getting EXCEPT ![call] = IdleCall]
  /\ UNCHANGED <<serviceVars, factoryVars, outcome, callerMap, cookieVars>>

KeyCallSecrets ==
  {SecretString(<<KeyA>>), SecretString(<<KeyA, KeyB>>),
   SecretString(<<KeyB, ShortKey>>)}

InitKeyCalls ==
  /\ SECRET \in KeyCallSecrets
  /\ cryptoKeyCache = <<>>
  /\ providers = createProviderMap(<<JWEA256GCMProvider>>)
  /\ ivCounter = 0
  /\ held = NoHeld
  /\ serviceInstance = Undefined
  /\ instances = <<>>
  /\ refs = [task \in Tasks |-> NoRef]
  /\ outcome = NoOutcome
  /\ callerMap = NoCallerMap
  /\ getting = [call \in KeyCalls |-> IdleCall]
  /\ cookieJar = Undefined
  /\ consuming = [consumer \in Consumers |-> IdleConsume]
  /\ delivered = <<>>

NextKeyCalls ==
  \/ \E value \in KeyCallSecrets : SetSecret(value)
  \/ \E call \in KeyCalls, base64Secret \in ListedSecrets :
       BeginGetCryptoKey(call, base64Secret)
  \/ \E call \in KeyCalls : ResolveImportKey(call)
  \/ \E call \in KeyCalls : SettleGetCryptoKey(call)

SpecKeyCalls == InitKeyCalls /\ [][NextKeyCalls]_vars

\* ------------------------------------- the machine of the signal cookie
\* OAuthPkceStateCookie.push(value) in createAuthorizationRequest
Push(value) ==
  /\ value = Len(delivered) + 1
  /\ cookieJar' = RawSet(value)
  /\ delivered' = Append(delivered, 0)
  /\ UNCHANGED <<serviceVars, factoryVars, outcome, callerMap, getting, consuming>>

\* consume() up to the end of `await this.rawHandle.get()`: null is returned at
\* once, a value is kept while the remove is awaited
ConsumeGet(consumer) ==
  /\ consuming[consumer].pc = "idle"
  /\ consuming' = [consuming EXCEPT ![consumer] =
                     [pc |-> IF RawGet(cookieJar) = NullValue
                             THEN "returned" ELSE "remove",
                      value |-> RawGet(cookieJar)]]
  /\ UNCHANGED <<serviceVars, factoryVars, outcome, callerMap, getting>>
  /\ UNCHANGED <<cookieJar, delivered>>

\* consume() from `await this.rawHandle.remove()` to `return value`
ConsumeRemove(consumer) ==
  /\ consuming[consumer].pc = "remove"
  /\ cookieJar' = RawRemove
  /\ consuming' = [consuming EXCEPT ![consumer].pc = "returned"]
  /\ delivered' = [delivered EXCEPT ![consuming[consumer].value] = @ + 1]
  /\ UNCHANGED <<serviceVars, factoryVars, outcome, callerMap, getting>>

\* the route handler goes on with what consume() returned and ends
Respond(consumer) ==
  /\ consuming[consumer].pc = "returned"
  /\ consuming' = [consuming EXCEPT ![consumer] = IdleConsume]
  /\ UNCHANGED <<serviceVars, factoryVars, outcome, callerMap, getting>>
  /\ UNCHANGED <<cookieJar, delivered>>

InitCookie ==
  /\ SECRET = AbsentSecret
  /\ cryptoKeyCache = <<>>
  /\ providers = createProviderMap(<<JWEA256GCMProvider>>)
  /\ ivCounter = 0
  /\ held = NoHeld
  /\ serviceInstance = Undefined
  /\ instances = <<>>
  /\ refs = [task \in Tasks |-> NoRef]
  /\ outcome = NoOutcome
  /\ callerMap = NoCallerMap
  /\ getting = [call \in KeyCalls |-> IdleCall]
  /\ cookieJar = Undefined
  /\ consuming = [consumer \in Consumers |-> IdleConsume]
  /\ delivered = <<>>

NextCookie ==
  \/ \E value \in 1..MaxPushes : Push(value)
  \/ \E consumer \in Consumers : ConsumeGet(consumer)
  \/ \E consumer \in Consumers : ConsumeRemove(consumer)
  \/ \E consumer \in Consumers : Respond(consumer)

SpecCookie == InitCookie /\ [][NextCookie]_vars

\* ------------------------------------------------------------- properties
SecretList == getSecretList(SECRET)
Listed(base64Secret) ==
  SecretList.ok /\ \E i \in 1..Len(SecretList.list) : SecretList.list[i] = base64Secret
AllListedValid ==
  /\ SecretList.ok
  /\ \A i \in 1..Len(SecretList.list) : DecodedLength(SecretList.list[i]) = KeyBytes

\* the held envelope carries a ciphertext (its plaintext was not empty)
HeldData == held.text.meta.data[1]
HeldSealed == held.has /\ HeldData.form = "jwe"
WithContext(context) == [given |-> TRUE, context |-> context]
Failed(out, type) == ~out.ok /\ out.error.type = type

\* decrypting the held envelope under its own context gives its plaintext back
RoundTripOfHeld ==
  (held.has /\ AllListedValid)
    => LET out == DecryptCall(held.text, WithContext(held.options.context))
       IN out.ok /\ out.value = held.plaintext

\* C1: decrypt(encrypt(p, {algorithm, context: c}), {context: c}) returns exactly
\* p for every plaintext and context while the secret list is unchanged (stated
\* right after the encrypt call, for a secret list of valid keys).
C1_RoundTrip == [][held' # held => RoundTripOfHeld']_vars

\* C2: an envelope encrypted with context c does not decrypt under a context
\* c2 # c: the call fails with a DecryptionError (stated for non-empty
\* plaintexts).
C2_WrongContextFails ==
  (HeldSealed /\ held.options.context # Undefined)
    => \A c2 \in DecryptContexts \ {Undefined, held.options.context} :
         Failed(DecryptCall(held.text, WithContext(c2)), "DecryptionError")

\* C3: an envelope encrypted with a context does not decrypt when no context is
\* supplied (options omitted, {} or context undefined): the call fails with a
\* DecryptionError (stated for non-empty plaintexts and non-empty contexts).
C3_MissingContextFails ==
  (HeldSealed /\ Truthy(held.options.context))
    => \A options \in {NoOptions, WithContext(Undefined)} :
         Failed(DecryptCall(held.text, options), "DecryptionError")

\* the encryption secret of the held envelope is listed, and the envelope
\* decrypts to its plaintext
KeptKeyDecrypts ==
  (HeldSealed /\ AllListedValid /\ Listed(HeldData.key))
    => LET out == DecryptCall(held.text, WithContext(held.options.context))
       IN out.ok /\ out.value = held.plaintext

\* C4: after the secret list has changed, an envelope whose encryption secret is
\* still anywhere in the list (all entries valid, contexts matching) decrypts to
\* its original plaintext.
C4_RotationKeyKept == [][SECRET' # SECRET => KeptKeyDecrypts']_vars

\* the rotation part of C4 alone: under the same conditions decrypt succeeds and
\* returns what the UTF-8 round trip makes of the original plaintext
C4_RotationKeyKeptUpToText ==
  (HeldSealed /\ AllListedValid /\ Listed(HeldData.key))
    => LET out == DecryptCall(held.text, WithContext(held.options.context))
       IN out.ok /\ out.value = TextDecode(TextEncode(held.plaintext))

\* C5: once the secret used at encryption is not in the secret list, every
\* decrypt of that envelope fails with a DecryptionError, whatever the key cache
\* holds.
C5_RotationKeyDropped ==
  (HeldSealed /\ ~Listed(HeldData.key))
    => \A options \in DecryptOptions :
         Failed(DecryptCall(held.text, options), "DecryptionError")

\* the dropped secret's key handle is still in the cache
C5_Witness ==
  /\ HeldSealed
  /\ SecretList.ok
  /\ ~Listed(HeldData.key)
  /\ HeldData.key \in DOMAIN cryptoKeyCache
  /\ Failed(DecryptCall(held.text, WithContext(held.options.context)),
            "DecryptionError")

\* C6 as claimed: a second encrypt with the plaintext and options of an earlier
\* one returns a different envelope string, for every plaintext.
C6_FreshEnvelope ==
  held.has
    => LET out == EncryptCall(held.plaintext, held.options)
       IN out.ok => out.value # held.text

\* C6 as amended: a second encrypt with the non-empty plaintext and the options
\* of an earlier one returns a different envelope string.
C6_FreshEnvelopeNonEmpty ==
  (held.has /\ ~IsEmptyString(held.plaintext))
    => LET out == EncryptCall(held.plaintext, held.options)
       IN out.ok => out.value # held.text

\* a non-empty plaintext was encrypted and the same call can be made again
C6_Witness ==
  /\ held.has
  /\ ~IsEmptyString(held.plaintext)
  /\ ivCounter >= 1
  /\ EncryptCall(held.plaintext, held.options).ok

\* C7: encrypt returns no envelope for a plaintext larger than 10 MiB.
C7_SizeBound == held.has => StringLength(held.plaintext) <= TenMiB

\* C8: decrypt of a non-empty input that is no well-formed envelope (invalid
\* base64, invalid JSON, JSON without algorithm or data) fails with a
\* DecryptionError and returns nothing.
C8_MalformedFails ==
  \A encryptedText \in MalformedTexts, options \in DecryptOptions :
    Failed(DecryptCall(encryptedText, options), "DecryptionError")

\* C9: the algorithm read back from a returned envelope is the one requested at
\* encrypt, and decrypt goes to the provider registered under the algorithm the
\* envelope embeds (or fails naming that algorithm when none is).
C9_SelfDescribing ==
  /\ held.has => getAlgorithmFromEncrypted(held.text) = held.options.algorithm
  /\ \A encryptedText \in CallerTexts, options \in DecryptOptions :
       encryptedText.form = "object"
         => LET out == DecryptCall(encryptedText, options)
                embedded == encryptedText.meta.algorithm
            IN IF ProvidersGet(providers, embedded) # Undefined
               THEN "provider.decrypt" \in out.calls
               ELSE /\ Failed(out, "UnsupportedAlgorithmError")
                    /\ out.error.requestedAlgorithm = embedded
                    /\ "provider.decrypt" \notin out.calls

\* a returned envelope names JWE-A256GCM and decrypts
C9_Witness ==
  /\ held.has
  /\ getAlgorithmFromEncrypted(held.text) = Some(JWE_A256GCM)
  /\ DecryptCall(held.text, WithContext(held.options.context)).ok

\* what the provider's exhausted key loop looks like from outside the service
ExhaustedKeys ==
  DecryptionError("Decryption failed", Undefined,
                  [type |-> "Error", message |-> <<"Decryption failed">>])

\* C10: with a usable secret list, every failing decrypt of a well-formed
\* envelope reports one and the same error, whether the key is not listed, the
\* context differs or the ciphertext was corrupted.
C10_UndifferentiatedFailure ==
  (HeldSealed /\ AllListedValid)
    => \A encryptedText \in {held.text, Tamper(held.text)},
          options \in DecryptOptions :
         LET out == DecryptCall(encryptedText, options)
         IN ~out.ok => out.error = ExhaustedKeys

\* the key is listed: one call fails on the context, another on the corrupted
\* ciphertext
C10_Witness ==
  /\ HeldSealed
  /\ AllListedValid
  /\ Listed(HeldData.key)
  /\ held.options.context = Some("c1")
  /\ ~DecryptCall(held.text, WithContext(Some("c2"))).ok
  /\ ~DecryptCall(Tamper(held.text), WithContext(Some("c1"))).ok


\* the service has been used: it returned an envelope and holds a key handle
InUse == held.has /\ DOMAIN cryptoKeyCache # {}

\* C11: encrypt with a missing or empty options.algorithm fails with
\* NoAlgorithmSpecifiedError, and with a non-empty algorithm that is not
\* registered fails with UnsupportedAlgorithmError; either error lists
\* getSupportedAlgorithms() and the call reaches no provider (no call below the
\* service, key cache untouched, no IV drawn).
C11_AlgorithmValidation ==
  \A plaintext \in Plaintexts, options \in EncryptOptions :
    LET out == EncryptCall(plaintext, options)
        available == getSupportedAlgorithms(providers)
        untouched == out.calls = {} /\ out.cache = cryptoKeyCache /\ ~out.ivUsed
    IN /\ options.algorithm \in {Undefined, Some("")}
            => /\ Failed(out, "NoAlgorithmSpecifiedError")
               /\ out.error.availableAlgorithms = available
               /\ untouched
       /\ (options.algorithm \notin {Undefined, Some("")}
             /\ \A i \in DOMAIN available : Some(available[i]) # options.algorithm)
            => /\ Failed(out, "UnsupportedAlgorithmError")
               /\ out.error.requestedAlgorithm = options.algorithm
               /\ out.error.availableAlgorithms = available
               /\ untouched

\* a service in use rejects both kinds of algorithm
C11_Witness ==
  /\ InUse
  /\ Failed(EncryptCall(held.plaintext, [held.options EXCEPT !.algorithm = Some("")]),
            "NoAlgorithmSpecifiedError")
  /\ Failed(EncryptCall(held.plaintext,
                        [held.options EXCEPT !.algorithm = Some("INVALID")]),
            "UnsupportedAlgorithmError")

\* C12: whenever provider.encrypt throws inside service.encrypt (configuration
\* error, key import failure), the caller gets an EncryptionError whose algorithm
\* is the requested one and whose cause is the error the provider threw; with a
\* registered algorithm no other error type leaves encrypt.
C12_ProviderFailureWrapped ==
  \A plaintext \in Plaintexts, options \in EncryptOptions :
    ProvidersGet(providers, options.algorithm) # Undefined
      => LET inner == ProviderEncrypt(plaintext, options.context, SECRET,
                                      cryptoKeyCache, ivCounter + 1)
             out == EncryptCall(plaintext, options)
         IN /\ ~inner.ok
                 => /\ Failed(out, "EncryptionError")
                    /\ out.error.message = <<"Encryption failed">>
                    /\ out.error.algorithm = options.algorithm
                    /\ out.error.cause
                         = [type |-> inner.error.type, message |-> inner.error.message]
                    /\ out.error.cause # NoCause
            /\ ~out.ok => out.error.type = "EncryptionError"

\* after an envelope was returned the first secret became one that cannot be
\* imported, and encrypt reports the import failure as the cause
C12_Witness ==
  /\ InUse
  /\ SecretList.ok
  /\ DecodedLength(SecretList.list[1]) # KeyBytes
  /\ LET out == EncryptCall(Str(<<97>>), held.options)
     IN /\ Failed(out, "EncryptionError")
        /\ out.error.cause.message = <<"Invalid secret key length">>

\* C13: decrypt of the empty string fails with DecryptionError 'Empty
\* ciphertext' (no cause) and has made no call at all: no atob, no registry
\* lookup, no key import, no provider call; the key cache is as before.
C13_EmptyCiphertext ==
  \A options \in DecryptOptions :
    LET out == DecryptCall(EmptyText, options)
    IN /\ Failed(out, "DecryptionError")
       /\ out.error.message = <<"Empty ciphertext">>
       /\ out.error.cause = NoCause
       /\ out.calls = {}
       /\ out.cache = cryptoKeyCache

\* the secret list names a key that is not cached yet (a provider call would
\* import it) and decrypt('') fails without importing it
C13_Witness ==
  /\ InUse
  /\ AllListedValid
  /\ \E i \in DOMAIN SecretList.list : SecretList.list[i] \notin DOMAIN cryptoKeyCache
  /\ DecryptCall(EmptyText, NoOptions).error.message = <<"Empty ciphertext">>

\* envelopes that decode to an object naming an algorithm
NamedTexts ==
  {t \in CallerTexts : t.form = "object" /\ t.meta.algorithm # Undefined}
    \cup (IF held.has THEN {Relabel(held.text, Some("UNKNOWN"))} ELSE {})

\* C14: decrypt of a well-formed envelope whose embedded algorithm is not
\* registered fails with UnsupportedAlgorithmError carrying the embedded
\* identifier and the registry's identifier list; it is not turned into a
\* DecryptionError and no provider is called (no key is imported).
C14_UnsupportedEmbedded ==
  \A encryptedText \in NamedTexts, options \in DecryptOptions :
    (\A i \in DOMAIN providers : Some(providers[i].key) # encryptedText.meta.algorithm)
      => LET out == DecryptCall(encryptedText, options)
         IN /\ Failed(out, "UnsupportedAlgorithmError")
            /\ out.error.requestedAlgorithm = encryptedText.meta.algorithm
            /\ out.error.availableAlgorithms = getSupportedAlgorithms(providers)
            /\ "provider.decrypt" \notin out.calls
            /\ out.cache = cryptoKeyCache

\* a returned envelope decrypts, and the same envelope renamed to an unknown
\* algorithm is rejected
C14_Witness ==
  /\ HeldSealed
  /\ DecryptCall(held.text, WithContext(held.options.context)).ok
  /\ Failed(DecryptCall(Relabel(held.text, Some("UNKNOWN")),
                        WithContext(held.options.context)),
            "UnsupportedAlgorithmError")

\* the secret configuration value is absent or holds only commas and whitespace
SecretUnusable ==
  ~SECRET.defined \/ \A i \in DOMAIN SECRET.segments : SECRET.segments[i] \in {"", Blank}

\* the calls that return before the provider reads the secret list: an empty
\* plaintext, and an envelope of a registered algorithm whose data is empty or
\* missing
EmptyData(encryptedText) ==
  /\ encryptedText.form = "object"
  /\ encryptedText.meta.data = Undefined \/ encryptedText.meta.data[1].form = "empty"

\* C15 as claimed: while the secret value is absent or parses to an empty list,
\* every encrypt and every decrypt call fails, whatever its plaintext or
\* envelope.
C15_ConfigurationFatal ==
  SecretUnusable
    => /\ \A plaintext \in Plaintexts, options \in EncryptOptions :
            ~EncryptCall(plaintext, options).ok
       /\ \A encryptedText \in CallerTexts, options \in DecryptOptions :
            ~DecryptCall(encryptedText, options).ok

\* C15 as amended: while the secret value is absent or parses to an empty list,
\* every encrypt of a non-empty plaintext fails and every decrypt of an envelope
\* whose data is a non-empty string (or of a string that is no envelope) fails,
\* also when the key cache still holds handles.
C15_ConfigurationFatalNonEmpty ==
  SecretUnusable
    => /\ \A plaintext \in Plaintexts, options \in EncryptOptions :
            ~IsEmptyString(plaintext) => ~EncryptCall(plaintext, options).ok
       /\ \A encryptedText \in CallerTexts, options \in DecryptOptions :
            ~EmptyData(encryptedText) => ~DecryptCall(encryptedText, options).ok

\* the secret was removed while an envelope is held and its key is still cached
C15_Witness ==
  /\ SecretUnusable
  /\ HeldSealed
  /\ HeldData.key \in DOMAIN cryptoKeyCache
  /\ Failed(DecryptCall(held.text, WithContext(held.options.context)),
            "DecryptionError")
  /\ Failed(EncryptCall(held.plaintext, held.options), "EncryptionError")

\* C20: with a non-empty secret list, encrypt of a non-empty plaintext under a
\* registered algorithm seals with the key of the first entry when that entry
\* imports, and fails when it does not, whatever the later entries and the key
\* cache are.
C20_ActiveKeyFirst ==
  \A plaintext \in Plaintexts, options \in EncryptOptions :
    (~IsEmptyString(plaintext) /\ options.algorithm = Some(JWE_A256GCM)
       /\ ~SecretUnusable)
      => LET first == TrimAndFilter(SECRET.segments)[1]
             out == EncryptCall(plaintext, options)
         IN IF DecodedLength(first) = KeyBytes
            THEN /\ out.ok
                 /\ out.value.meta.data[1].key = first
                 /\ "CompactEncrypt" \in out.calls
            ELSE ~out.ok /\ ~out.ivUsed

\* SECRET is "B,A": the held envelope was sealed with B while A's handle is
\* cached
C20_Witness ==
  /\ ~SecretUnusable
  /\ TrimAndFilter(SECRET.segments) = <<KeyB, KeyA>>
  /\ HeldSealed
  /\ HeldData.key = KeyB
  /\ KeyA \in DOMAIN cryptoKeyCache


\* the envelope that reEncrypt makes of the held one under its own context
\* decrypts under the new context to `expected`
ReEncryptsTo(newOptions, expected) ==
  LET made == ReEncryptCall(held.text, WithContext(held.options.context), newOptions)
      out == ServiceDecrypt(made.value, WithContext(newOptions.context), providers,
                            SECRET, made.cache)
  IN made.ok /\ out.ok /\ out.value = expected

\* the secret list is usable and still names the key of the held envelope
HeldKeyListed == held.has /\ AllListedValid /\ (HeldSealed => Listed(HeldData.key))

\* C16: for an envelope E = encrypt(p, {algorithm, context: c}) and new options
\* {algorithm: a2, context: c2} with a2 registered, reEncrypt(E, {context: c},
\* newOptions) returns E2 with decrypt(E2, {context: c2}) = p, c and c2 absent
\* or not (stated for a secret list of valid keys that names E's key).
C16_ReEncryptResult ==
  HeldKeyListed
    => \A newOptions \in EncryptOptions :
         ProvidersGet(providers, newOptions.algorithm) # Undefined
           => ReEncryptsTo(newOptions, held.plaintext)

\* the composition itself: under the same conditions E2 decrypts to what two
\* UTF-8 round trips make of p
C16_ReEncryptResultUpToText ==
  HeldKeyListed
    => \A newOptions \in EncryptOptions :
         ProvidersGet(providers, newOptions.algorithm) # Undefined
           => ReEncryptsTo(newOptions,
                           TextDecode(TextEncode(TextDecode(TextEncode(held.plaintext)))))

\* what a rejected reEncrypt must look like, given the outcomes of its steps
Propagates(made, decrypted, encrypted) ==
  /\ ~decrypted.ok
       => /\ ~made.ok
          /\ made.error = decrypted.error
          /\ made.calls \cap {"encrypt", "provider.encrypt", "CompactEncrypt"} = {}
  /\ (decrypted.ok /\ ~encrypted.ok) => (~made.ok /\ made.error = encrypted.error)
  /\ ~made.ok => (made.value = EmptyText /\ ~made.ivUsed)

\* the key cache holds what it held, and beyond that only handles of listed
\* secrets
CacheOnlyGrew(cache) ==
  /\ DOMAIN cryptoKeyCache \subseteq DOMAIN cache
  /\ \A s \in DOMAIN cache :
       IF s \in DOMAIN cryptoKeyCache THEN cache[s] = cryptoKeyCache[s]
       ELSE Listed(s) /\ cache[s] = ImportKey(s)

\* C17 as claimed: a reEncrypt whose decrypt step fails never starts encrypt and
\* rejects with decrypt's error, one whose encrypt step fails rejects with
\* encrypt's error; either way no envelope is returned and nothing of the
\* service has changed, the provider's key cache included.
C17_FailureNoEffect ==
  \A encryptedText \in ReEncryptTexts, oldOptions \in DecryptOptions,
     newOptions \in ReEncryptNew :
    LET made == ReEncryptCall(encryptedText, oldOptions, newOptions)
        decrypted == DecryptCall(encryptedText, oldOptions)
        encrypted == ServiceEncrypt(decrypted.value, newOptions, providers, SECRET,
                                    decrypted.cache, ivCounter + 1)
    IN /\ Propagates(made, decrypted, encrypted)
       /\ ~made.ok => made.cache = cryptoKeyCache

\* C17 as amended: the same propagation; no envelope is returned, no IV is
\* drawn, and the only thing a rejected reEncrypt may leave behind is key
\* handles of listed secrets in the provider's cache.
C17_FailurePropagates ==
  \A encryptedText \in ReEncryptTexts, oldOptions \in DecryptOptions,
     newOptions \in ReEncryptNew :
    LET made == ReEncryptCall(encryptedText, oldOptions, newOptions)
        decrypted == DecryptCall(encryptedText, oldOptions)
        encrypted == ServiceEncrypt(decrypted.value, newOptions, providers, SECRET,
                                    decrypted.cache, ivCounter + 1)
    IN /\ Propagates(made, decrypted, encrypted)
       /\ ~made.ok => CacheOnlyGrew(made.cache)

\* a reEncrypt of a held envelope got through decrypt and was rejected by
\* encrypt; the caller still holds the old envelope
C17_Witness ==
  /\ outcome.op = "reEncrypt"
  /\ outcome.step = "encrypt"
  /\ outcome.error.type = "UnsupportedAlgorithmError"
  /\ HeldSealed
  /\ HeldData.key \in DOMAIN cryptoKeyCache


\* C18: constructing a service from an empty provider set throws
\* NoProvidersError and adds no instance, so every instance that exists has a
\* registry of at least one algorithm.
C18_NoEmptyService ==
  /\ \A i \in DOMAIN instances : Len(getSupportedAlgorithms(instances[i].providers)) >= 1
  /\ \A t \in Tasks : refs[t] \in {NoRef} \cup DOMAIN instances
  /\ (outcome.op = "createEncryptionService" /\ outcome.step # "ok")
       => outcome.error = NoProvidersError
  /\ Failed(createEncryptionService(<<>>), "NoProvidersError")

\* a construction from no providers has just thrown while services exist
C18_Witness ==
  /\ outcome.op = "createEncryptionService"
  /\ outcome.error.type = "NoProvidersError"
  /\ Len(instances) >= 1

\* what one step may do to the singleton
SingletonStep ==
  /\ outcome'.op = "getEncryptionService"
       => /\ serviceInstance' # Undefined
          /\ \E t \in Tasks : refs'[t] = serviceInstance'[1]
          /\ \A i \in DOMAIN instances : instances'[i] = instances[i]
          /\ IF serviceInstance # Undefined
             THEN serviceInstance' = serviceInstance /\ instances' = instances
             ELSE /\ serviceInstance'[1] \notin DOMAIN instances
                  /\ \A t \in Tasks : refs[t] # serviceInstance'[1]
                  /\ instances'[serviceInstance'[1]]
                       = [providers |-> createProviderMap(<<JWEA256GCMProvider>>),
                          cryptoKeyCache |-> <<>>]
  /\ outcome'.op # "resetEncryptionService"
       => (serviceInstance # Undefined => serviceInstance' = serviceInstance)
  /\ outcome'.op = "resetEncryptionService"
       => (serviceInstance' = Undefined /\ instances' = instances /\ refs' = refs)

\* every reference a task holds, stale or not, is to a service that encrypts and
\* decrypts, and whose envelopes the current singleton decrypts to the same text
ReferencesUsable ==
  AllListedValid
    => \A t \in Tasks :
         refs[t] # NoRef
           => \A plaintext \in FactoryPlaintexts, options \in FactoryOptions :
                LET made == EncryptBy(refs[t], plaintext, options)
                    own == DecryptBy(refs[t], made.value, WithContext(options.context))
                IN /\ made.ok
                   /\ own.ok
                   /\ serviceInstance # Undefined
                        => LET new == DecryptBy(serviceInstance[1], made.value,
                                                WithContext(options.context))
                           IN new.ok /\ new.value = own.value

\* C19: a lookup while the singleton exists returns it and constructs nothing,
\* only resetEncryptionService ends a singleton, the first lookup after a reset
\* returns a newly constructed instance that no task held before, and a
\* reference obtained before the reset stays usable: its service still encrypts
\* and decrypts and the new singleton decrypts its envelopes.
C19_SingletonLifecycle == [][SingletonStep]_vars /\ []ReferencesUsable

\* task t1 still holds the singleton of before the reset, which sealed the held
\* envelope; t2 holds the new singleton, whose key cache is still empty but which
\* decrypts that envelope
C19_Witness ==
  /\ serviceInstance # Undefined
  /\ refs["t1"] # NoRef
  /\ refs["t1"] # serviceInstance[1]
  /\ refs["t2"] = serviceInstance[1]
  /\ HeldSealed
  /\ HeldData.key \in DOMAIN instances[refs["t1"]].cryptoKeyCache
  /\ instances[refs["t2"]].cryptoKeyCache = <<>>
  /\ DecryptBy(refs["t2"], held.text, WithContext(held.options.context)).ok

\* the non-empty ciphertexts a caller can hand to provider.decrypt
CallerData ==
  {t.meta.data : t \in {x \in CallerTexts : /\ x.form = "object"
                                            /\ x.meta.data # Undefined
                                            /\ x.meta.data[1].form # "empty"}}

\* the key opens the ciphertext and the caller's context, when given, is the
\* bound one
OpensUnder(jwe, context, key) ==
  CompactDecryptOpens(jwe, key) /\ (Truthy(context) => jwe.kid = context)

\* C21: a provider decrypt of a non-empty ciphertext hands the keys of the
\* secret list to compactDecrypt one entry after the other from the first entry
\* on, each entry at most once, stops at the first key that opens the
\* ciphertext with a matching context, and otherwise ends after the last entry
\* with the single error 'Decryption failed'.
C21_KeyLoopNoRetry ==
  AllListedValid
    => \A data \in CallerData, context \in DecryptContexts :
         LET out == ProviderDecrypt(data, context, SECRET, cryptoKeyCache)
             n == Len(out.attempts)
         IN /\ n \in 1..Len(SecretList.list)
            /\ \A i \in 1..n : out.attempts[i] = ImportKey(SecretList.list[i])
            /\ \A i \in 1..(n - 1) : ~OpensUnder(data[1], context, out.attempts[i])
            /\ out.ok <=> OpensUnder(data[1], context, out.attempts[n])
            /\ ~out.ok => /\ n = Len(SecretList.list)
                          /\ out.error = Thrown("Error", "Decryption failed")

\* the held envelope was sealed under the second listed secret: the loop tries
\* the first entry, then the second, and returns
C21_Witness ==
  /\ HeldSealed
  /\ AllListedValid
  /\ Len(SecretList.list) = 2
  /\ SecretList.list[1] # HeldData.key
  /\ SecretList.list[2] = HeldData.key
  /\ LET out == ProviderDecrypt(held.text.meta.data, held.options.context,
                                SECRET, cryptoKeyCache)
     IN out.ok /\ Len(out.attempts) = 2

\* the error service.decrypt rejects with when nothing inside threw a typed one
WrappedAs(error, inner) ==
  /\ error.type = "DecryptionError"
  /\ error.message = <<"Decryption failed">>
  /\ inner.type \notin {"DecryptionError", "UnsupportedAlgorithmError", "none"}
  /\ error.cause = [type |-> inner.type, message |-> inner.message]

\* C22: every rejection of service.decrypt is a DecryptionError or an
\* UnsupportedAlgorithmError; the typed errors raised inside (empty ciphertext,
\* unregistered algorithm) leave unchanged, and a decode failure, a
\* configuration error, a key-import error or the provider's error is wrapped
\* in a DecryptionError that carries it as cause.
C22_ClosedErrorSet ==
  \A encryptedText \in CallerTexts, options \in DecryptOptions :
    LET out == DecryptCall(encryptedText, options)
        parsed == ParseMetadata(encryptedText)
        inner == ProviderDecrypt(parsed.meta.data, OptionsContext(options),
                                 SECRET, cryptoKeyCache)
    IN ~out.ok
         => /\ out.error.type \in {"DecryptionError", "UnsupportedAlgorithmError"}
            /\ IF IsEmptyText(encryptedText)
               THEN out.error = DecryptionError("Empty ciphertext", Undefined, NoCause)
               ELSE IF ~parsed.ok
               THEN WrappedAs(out.error, parsed.error)
               ELSE IF ProvidersGet(providers, parsed.meta.algorithm) = Undefined
               THEN out.error = UnsupportedAlgorithmError(
                                  parsed.meta.algorithm,
                                  getSupportedAlgorithms(providers))
               ELSE ~inner.ok /\ WrappedAs(out.error, inner.error)

\* the same envelope is rejected with a wrapped provider error once tampered
\* with and with the unchanged UnsupportedAlgorithmError once relabelled
C22_Witness ==
  /\ HeldSealed
  /\ AllListedValid
  /\ Listed(HeldData.key)
  /\ DecryptCall(Tamper(held.text), NoOptions).error.cause
       = [type |-> "Error", message |-> <<"Decryption failed">>]
  /\ \E encryptedText \in CallerTexts :
       /\ encryptedText.form = "object"
       /\ DecryptCall(encryptedText, NoOptions).error.type = "UnsupportedAlgorithmError"
       /\ DecryptCall(encryptedText, NoOptions).error.cause = NoCause

\* C23: every value a successful service.encrypt returns is the encoding of
\* exactly {algorithm, version: 1, data}, where algorithm is the
\* ALGORITHM_IDENTIFIER of the provider that was called and data is that
\* provider's result (the empty string for an empty plaintext); the envelope
\* the caller holds has that shape too.
C23_EnvelopeFormat ==
  /\ \A plaintext \in Plaintexts, options \in EncryptOptions :
       LET out == EncryptCall(plaintext, options)
           provider == ProvidersGet(providers, options.algorithm)
           raw == ProviderEncrypt(plaintext, options.context, SECRET,
                                  cryptoKeyCache, ivCounter + 1)
       IN out.ok
            => /\ provider # Undefined
               /\ raw.ok
               /\ out.value
                    = EncodeMetadata([algorithm |-> Some(provider[1].ALGORITHM_IDENTIFIER),
                                      version |-> 1,
                                      data |-> Some(raw.value)])
               /\ IsEmptyString(plaintext) => raw.value = EmptyJwe
               /\ out.value # raw.value
  /\ held.has
       => /\ held.text.form = "object"
          /\ held.text.meta.version = 1
          /\ held.text.meta.algorithm = Some(JWE_A256GCM)
          /\ held.text.meta.data # Undefined
          /\ IsEmptyString(held.plaintext) <=> HeldData = EmptyJwe

\* an envelope of an empty plaintext is held and a non-empty plaintext can be
\* encrypted under a context
C23_Witness ==
  /\ held.has
  /\ IsEmptyString(held.plaintext)
  /\ held.text.meta.data = Some(EmptyJwe)
  /\ \E plaintext \in Plaintexts :
       LET out == EncryptCall(plaintext, [algorithm |-> Some(JWE_A256GCM),
                                          context |-> Some("c1")])
       IN out.ok /\ out.value.meta.data[1].form = "jwe"

\* C26: an envelope of a non-empty plaintext encrypted without a context has no
\* key identifier in its protected header, and every decrypt of it under a
\* non-empty caller context fails with a DecryptionError.
C26_UnboundUnderContext ==
  (HeldSealed /\ held.options.context = Undefined)
    => /\ HeldData.kid = Undefined
       /\ \A c \in {x \in DecryptContexts : Truthy(x)} :
            Failed(DecryptCall(held.text, WithContext(c)), "DecryptionError")

\* the unbound envelope decrypts without a context and not under context c1
C26_Witness ==
  /\ HeldSealed
  /\ held.options.context = Undefined
  /\ AllListedValid
  /\ Listed(HeldData.key)
  /\ DecryptCall(held.text, NoOptions).ok
  /\ Failed(DecryptCall(held.text, WithContext(Some("c1"))), "DecryptionError")

SomeListedInvalid ==
  /\ SecretList.ok
  /\ \E i \in 1..Len(SecretList.list) : DecodedLength(SecretList.list[i]) # KeyBytes

\* C28: while any entry of the secret list does not decode to 32 bytes, every
\* decrypt of a non-empty ciphertext of a registered algorithm fails with a
\* DecryptionError caused by the key-length error, and no key is handed to
\* compactDecrypt; encrypt of a non-empty plaintext still succeeds when the
\* first entry is valid, and the envelope it returns does not decrypt under
\* that same list.
C28_MalformedSecretBlocksDecrypt ==
  SomeListedInvalid
    => /\ \A encryptedText \in CallerTexts, options \in DecryptOptions :
            (/\ encryptedText.form = "object"
             /\ encryptedText.meta.data \in CallerData
             /\ ProvidersGet(providers, encryptedText.meta.algorithm) # Undefined)
              => LET out == DecryptCall(encryptedText, options)
                 IN /\ Failed(out, "DecryptionError")
                    /\ out.error.cause = [type |-> "Error",
                                          message |-> <<"Invalid secret key length">>]
                    /\ "compactDecrypt" \notin out.calls
                    /\ ProviderDecrypt(encryptedText.meta.data, OptionsContext(options),
                                       SECRET, cryptoKeyCache).attempts = <<>>
       /\ DecodedLength(SecretList.list[1]) = KeyBytes
            => \A plaintext \in Plaintexts \ {EmptyString}, context \in EncryptContexts :
                 LET out == EncryptCall(plaintext, [algorithm |-> Some(JWE_A256GCM),
                                                    context |-> context])
                 IN /\ out.ok
                    /\ Failed(ServiceDecrypt(out.value, WithContext(context), providers,
                                             SECRET, out.cache),
                              "DecryptionError")

\* the held envelope was sealed under the first listed secret, which is valid
\* and cached, and a later entry of the list is malformed
C28_Witness ==
  /\ SomeListedInvalid
  /\ HeldSealed
  /\ SecretList.list[1] = HeldData.key
  /\ HeldData.key \in DOMAIN cryptoKeyCache
  /\ Failed(DecryptCall(held.text, WithContext(held.options.context)),
            "DecryptionError")

\* the last provider of the list that carries the identifier, or Undefined
RECURSIVE LastSupplied(_, _)
LastSupplied(providerList, identifier) ==
  IF providerList = <<>> THEN Undefined
  ELSE IF providerList[Len(providerList)].ALGORITHM_IDENTIFIER = identifier
  THEN Some(providerList[Len(providerList)])
  ELSE LastSupplied(SubSeq(providerList, 1, Len(providerList) - 1), identifier)

\* every key of the registry is the identifier of the provider stored under it,
\* and no identifier is registered twice
KeysMatchProviders(registry) ==
  /\ \A i \in 1..Len(registry) : registry[i].key = registry[i].provider.ALGORITHM_IDENTIFIER
  /\ \A i, j \in 1..Len(registry) : registry[i].key = registry[j].key => i = j

\* C29: in every service built by createEncryptionService or
\* getEncryptionService each registry key is the ALGORITHM_IDENTIFIER of the
\* provider stored under it, the provider stored for an identifier is the last
\* one supplied for it, the algorithm embedded in an envelope is the one
\* requested at encrypt, and decrypt looks up the provider that produced it.
C29_RegistryKeyIsIdentity ==
  /\ \A providerList \in ProviderLists :
       LET made == createEncryptionService(providerList) IN
       made.ok
         => /\ KeysMatchProviders(made.instance.providers)
            /\ \A k \in 1..Len(providerList) :
                 ProvidersGet(made.instance.providers,
                              Some(providerList[k].ALGORITHM_IDENTIFIER))
                   = LastSupplied(providerList, providerList[k].ALGORITHM_IDENTIFIER)
  /\ \A instance \in {instances[i] : i \in 1..Len(instances)} :
       /\ KeysMatchProviders(instance.providers)
       /\ \A k \in 1..Len(instance.providers) :
            instance.providers[k].provider # EarlierProvider
       /\ \A plaintext \in FactoryPlaintexts, options \in FactoryOptions :
            LET out == ServiceEncrypt(plaintext, options, instance.providers, SECRET,
                                      instance.cryptoKeyCache, ivCounter + 1)
                producing == ProvidersGet(instance.providers, options.algorithm)
            IN out.ok
                 => /\ out.value.meta.algorithm = options.algorithm
                    /\ out.value.meta.algorithm
                         = Some(producing[1].ALGORITHM_IDENTIFIER)
                    /\ ProvidersGet(instance.providers, out.value.meta.algorithm)
                         = producing
                    /\ "provider.decrypt"
                         \in ServiceDecrypt(out.value, NoOptions, instance.providers,
                                            SECRET, out.cache).calls

\* services built by both functions exist, one of them just built by
\* createEncryptionService, and an envelope was made through a reference
C29_Witness ==
  /\ Len(instances) >= 2
  /\ serviceInstance # Undefined
  /\ outcome.op = "createEncryptionService"
  /\ outcome.step = "ok"
  /\ held.has
  /\ createEncryptionService(<<EarlierProvider, JWEA256GCMProvider>>)
       .instance.providers[1].provider = JWEA256GCMProvider

\* C24: no encrypt, decrypt, reEncrypt, getSupportedAlgorithms,
\* isAlgorithmSupported or getAlgorithmFromEncrypted call, successful or
\* failing, and no later write to the Map that was passed to the constructor
\* changes the service's identifier-to-provider mapping, and
\* getSupportedAlgorithms() returns in every state the list it returned after
\* construction.
C24_RegistryImmutable ==
  /\ [][providers' = providers]_vars
  /\ [](getSupportedAlgorithms(providers)
          = getSupportedAlgorithms(createProviderMap(<<JWEA256GCMProvider>>)))

\* the caller's Map was emptied after an envelope was made, a failing call has
\* just ended, and the service still encrypts under its registered algorithm
C24_Witness ==
  /\ callerMap.entries = <<>>
  /\ held.has
  /\ outcome.op = "reEncrypt"
  /\ outcome.step # "ok"
  /\ isAlgorithmSupported(providers, JWE_A256GCM)
  /\ DecryptCall(held.text, WithContext(held.options.context)).ok

\* a getCryptoKey call that nothing interleaves with does what the two halves
\* of the interleaved call do one after the other
StepsMakeTheCall(base64Secret) ==
  LET begun == getCryptoKeyStart(base64Secret, cryptoKeyCache)
      resumed == getCryptoKeyResume(base64Secret, cryptoKeyCache)
      whole == getCryptoKey(base64Secret, cryptoKeyCache)
  IN CASE begun.pc = "returned" ->
            whole.ok /\ whole.key = begun.key /\ whole.cache = cryptoKeyCache
       [] begun.pc = "threw" ->
            ~whole.ok /\ whole.error = begun.error /\ whole.cache = cryptoKeyCache
       [] begun.pc = "importKey" ->
            whole.ok /\ whole.key = resumed.key /\ whole.cache = resumed.cache

\* C25: however getCryptoKey calls interleave at their await, a call that
\* returned holds the handle derived from the secret it asked for and that
\* secret is cached, a call throws only for a secret that fails the 32-byte
\* check, and every cache entry maps a secret that passes the check to the
\* handle derived from that same secret.
C25_KeyCacheUnderConcurrency ==
  /\ \A call \in KeyCalls :
       /\ getting[call].pc = "returned"
            => /\ getting[call].key = ImportKey(getting[call].secret)
               /\ DecodedLength(getting[call].secret) = KeyBytes
               /\ getting[call].secret \in DOMAIN cryptoKeyCache
       /\ getting[call].pc = "threw"
            => /\ DecodedLength(getting[call].secret) # KeyBytes
               /\ getting[call].secret \notin DOMAIN cryptoKeyCache
       /\ getting[call].pc = "importKey"
            => DecodedLength(getting[call].secret) = KeyBytes
  /\ \A base64Secret \in DOMAIN cryptoKeyCache :
       /\ cryptoKeyCache[base64Secret] = ImportKey(base64Secret)
       /\ DecodedLength(base64Secret) = KeyBytes
  /\ \A base64Secret \in ListedSecrets : StepsMakeTheCall(base64Secret)

\* two calls for the same secret both missed the cache, both imported and both
\* returned, and the cache holds that secret's handle
C25_Witness ==
  \E first, second \in KeyCalls :
    /\ first # second
    /\ getting[first].pc = "returned"
    /\ getting[second].pc = "returned"
    /\ getting[first].imported
    /\ getting[second].imported
    /\ getting[first].secret = getting[second].secret
    /\ cryptoKeyCache[getting[first].secret] = getting[first].key
    /\ getting[second].key = getting[first].key

\* C30: a value stored by push(v) is returned by at most one consume() call,
\* and once a consume() has returned v the cookie no longer holds v, also when
\* consume() calls interleave between the read and the remove.
C30_OneShotSignal ==
  /\ \A value \in 1..Len(delivered) : delivered[value] <= 1
  /\ \A consumer \in Consumers :
       (consuming[consumer].pc = "returned" /\ consuming[consumer].value # NullValue)
         => RawGet(cookieJar) # consuming[consumer].value

=============================================================================
